---- MODULE Spec2Model ----
(***************************************************************************)
(* Background-region extraction of tebrizzy/rad-pinker.                    *)
(*                                                                         *)
(*   smart_transparent.py  make_transparent: flood fill from the border,   *)
(*                         walled by dark pixels, then two fringe passes   *)
(*   replace_background.py flood_fill_background + remove_fringe           *)
(*   cleanup_dots.py / remove_yellow_dots.py  small-cluster removal        *)
(*   batch_replace / batch_process / cleanup_dots.main  batch drivers      *)
(*                                                                         *)
(* A pixel is <<r, g, b, a>>, a colour <<r, g, b>>, a coordinate <<x, y>>. *)
(* math.sqrt(d2) < t is modelled as d2 < t*t: d2 and t are integers, and   *)
(* the correctly rounded square root of an integer below t*t is below t.   *)
(***************************************************************************)
EXTENDS Integers, Sequences, FiniteSets, TLC

VARIABLES
    prog,           \* the script that runs
    w, h,           \* img.size
    pixels,         \* img.load(): coordinate -> pixel, mutated by the apply step
    pixels0,        \* the raster as it was loaded
    bg_color,       \* background colour handed to the flood fill
    pc,             \* position in the script
    queue,          \* deque of the running BFS
    visited,        \* visited set of the running BFS
    to_remove,      \* smart: to_remove; replace: background, then removed
    bg_pixels,      \* the flood-fill output (replace_background's bg_pixels)
    pass_num,       \* fringe passes started
    fringe,         \* the fringe set of the last pass
    run,            \* 1: first run, 2: run again on the raster the first left
    first_removed,  \* RemovalSet the first run applied
    scan,           \* cluster search: index of the scan loop, y * w + x
    cluster,        \* cluster search: the cluster being grown
    clusters,       \* cluster search: clusters found so far
    next_cluster,   \* cluster removal: index of the next cluster to look at
    max_cluster_size,
    removed,        \* cluster removal: the returned pixel count
    files,          \* batch: the files of the folder or argument list
    idx,            \* batch: index of the next file
    processed,      \* batch: the processed counter
    attempted,      \* batch: indices of the files handed to the per-image call
    corner_colors,  \* detect_bg_color: the samples appended so far
    sx, sy,         \* detect_bg_color: the loop variables x and y
    new_bg,         \* swap_background_generic: the replacement raster
    replaced,       \* swap_background_generic: the pass's replaced counter
    pending,        \* fringe pass: RemovalSet coordinates the loop has yet to examine
    pass_start      \* fringe pass: the RemovalSet when the pass began

vars == <<prog, w, h, pixels, pixels0, bg_color, pc, queue, visited, to_remove,
          bg_pixels, pass_num, fringe, run, first_removed, scan, cluster,
          clusters, next_cluster, max_cluster_size, removed, files, idx,
          processed, attempted, corner_colors, sx, sy, new_bg, replaced,
          pending, pass_start>>

imageVars == <<w, h, pixels, pixels0>>
fillVars == <<bg_color, to_remove, bg_pixels, pass_num, fringe, run, first_removed>>
clusterVars == <<scan, cluster, clusters, next_cluster, max_cluster_size, removed>>
batchVars == <<files, idx, processed, attempted>>
sampleVars == <<corner_colors, sx, sy>>
swapVars == <<new_bg, replaced>>
passVars == <<pending, pass_start>>

(***************************************************************************)
(* Bounds of the model.                                                    *)
(***************************************************************************)
MaxMarks == 2
MaxFiles == 3

(***************************************************************************)
(* Program constants.                                                      *)
(***************************************************************************)
DARK_THRESHOLD == 50
SMART_TOLERANCE == 10
SMART_FRINGE_TOLERANCE == 50
SMART_PASSES == 2
TOLERANCE == 45
TIGHT_TOLERANCE == 40
FRINGE_TOLERANCE == 55
REPLACE_PASSES == 1
DOTS_TOLERANCE == 45
YELLOW_TOLERANCE == 40

(***************************************************************************)
(* Colours.                                                                *)
(***************************************************************************)
Green == <<0, 255, 0, 255>>
Black == <<0, 0, 0, 255>>
Red == <<255, 0, 0, 255>>
Halo == <<0, 255, 47, 255>>
Transparent == <<0, 0, 0, 0>>

RGB(pixel) == <<pixel[1], pixel[2], pixel[3]>>

Coords(wd, ht) == {<<x, y>> : x \in 0..(wd - 1), y \in 0..(ht - 1)}

InBounds(c) == 0 <= c[1] /\ c[1] < w /\ 0 <= c[2] /\ c[2] < h

IsBorder(c) == c[1] = 0 \/ c[1] = w - 1 \/ c[2] = 0 \/ c[2] = h - 1

Neighbours4(c) ==
    <<<<c[1] + 1, c[2]>>, <<c[1] - 1, c[2]>>, <<c[1], c[2] + 1>>, <<c[1], c[2] - 1>>>>

Range(s) == {s[i] : i \in 1..Len(s)}

(***************************************************************************)
(* Colour arithmetic.                                                      *)
(***************************************************************************)
\* a distance over the red channel alone, for comparison with the real one
ColorDist2Red(c1, c2) == (c1[1] - c2[1]) * (c1[1] - c2[1])

\* color_dist / color_distance, squared
ColorDist2(c1, c2) ==
    (c1[1] - c2[1]) * (c1[1] - c2[1]) +
    (c1[2] - c2[2]) * (c1[2] - c2[2]) +
    (c1[3] - c2[3]) * (c1[3] - c2[3])

DistBelow(c1, c2, t) == ColorDist2(c1, c2) < t * t

is_dark(pixel) ==
    /\ pixel[1] < DARK_THRESHOLD
    /\ pixel[2] < DARK_THRESHOLD
    /\ pixel[3] < DARK_THRESHOLD

\* make_transparent's closures is_bg and is_fringe
is_bg(pixel, bg) == DistBelow(pixel, bg, SMART_TOLERANCE)

is_fringe(pixel, bg) ==
    DistBelow(pixel, bg, SMART_FRINGE_TOLERANCE) /\ ~is_dark(pixel)

\* is_target_color without its alpha == 0 early return, for comparison
is_target_color_no_alpha(pixel, target) == DistBelow(pixel, target, TOLERANCE)

is_target_color(pixel, target) ==
    IF Len(pixel) = 4 /\ pixel[4] = 0
    THEN FALSE
    ELSE DistBelow(pixel, target, TOLERANCE)

Max2(a, b) == IF a >= b THEN a ELSE b
Min2(a, b) == IF a <= b THEN a ELSE b
MaxC(c) == Max2(c[1], Max2(c[2], c[3]))
MinC(c) == Min2(c[1], Min2(c[2], c[3]))

\* colorsys.rgb_to_hls on channels/255, kept as exact fractions:
\*   l = LightNum / 510, s = SatNum / SatDen, h = HueNum / HueDen
LightNum(c) == MaxC(c) + MinC(c)
SatNum(c) == MaxC(c) - MinC(c)
SatDen(c) ==
    IF MaxC(c) = MinC(c) THEN 1
    ELSE IF LightNum(c) <= 255 THEN LightNum(c) ELSE 510 - LightNum(c)
HueDen(c) == IF MaxC(c) = MinC(c) THEN 1 ELSE 6 * SatNum(c)
HueNum(c) ==
    IF MaxC(c) = MinC(c) THEN 0
    ELSE IF c[1] = MaxC(c) THEN (c[2] - c[3] + HueDen(c)) % HueDen(c)
    ELSE IF c[2] = MaxC(c) THEN (2 * SatNum(c) + c[3] - c[1]) % HueDen(c)
    ELSE (4 * SatNum(c) + c[1] - c[2]) % HueDen(c)

\* rgb_to_hue: None (NoHue) when s < 0.1, else the hue as <<numerator, denominator>>
NoHue == <<0, 0>>

rgb_to_hue(c) ==
    IF 10 * SatNum(c) < SatDen(c) THEN NoHue ELSE <<HueNum(c), HueDen(c)>>

Abs(n) == IF n < 0 THEN -n ELSE n

\* hue_distance(h1, h2) < HUE_TOLERANCE (0.12 = 3/25)
HueClose(h1, h2) ==
    IF h1 = NoHue \/ h2 = NoHue THEN FALSE
    ELSE LET x == Abs(h1[1] * h2[2] - h2[1] * h1[2])
             y == h1[2] * h2[2]
         IN  25 * Min2(x, y - x) < 3 * y

is_fringe_pixel(pixel, bg, bg_hue) ==
    IF Len(pixel) = 4 /\ pixel[4] = 0 THEN FALSE
    ELSE IF DistBelow(pixel, bg, TIGHT_TOLERANCE) THEN TRUE
    ELSE /\ DistBelow(pixel, bg, FRINGE_TOLERANCE)
         /\ rgb_to_hue(pixel) # NoHue
         /\ bg_hue # NoHue
         /\ HueClose(rgb_to_hue(pixel), bg_hue)
         /\ 4 * SatNum(pixel) > SatDen(pixel)
         /\ 5 * LightNum(pixel) > 510

(***************************************************************************)
(* Rasters the scripts are run on: every raster of a small shape that is   *)
(* one canvas colour (background, outline or subject) with at most         *)
(* MaxMarks pixels of any palette colour painted over, and the 10x10       *)
(* image of Scenario A.                                                    *)
(***************************************************************************)
Palette == {Green, Black, Red, Halo, Transparent}

Canvases == {Green, Black, Red}

BgColors == {RGB(Green), RGB(Black)}

Shapes == {<<1, 1>>, <<3, 1>>, <<2, 2>>, <<3, 3>>}

Image(wd, ht, px) == [w |-> wd, h |-> ht, px |-> px]

Painted(wd, ht, canvas, marks) ==
    [c \in Coords(wd, ht) |-> IF c \in DOMAIN marks THEN marks[c] ELSE canvas]

SmallImages ==
    UNION {
        {Image(sh[1], sh[2], Painted(sh[1], sh[2], canvas, marks)) :
            canvas \in Canvases,
            marks \in UNION {[S -> Palette] :
                S \in {T \in SUBSET Coords(sh[1], sh[2]) : Cardinality(T) <= MaxMarks}}}
        : sh \in Shapes}

\* Scenario A: green, a closed ring of black around a 2x2 red block
ScenarioA ==
    Image(10, 10,
        [c \in Coords(10, 10) |->
            IF c[1] \in 4..5 /\ c[2] \in 4..5 THEN Red
            ELSE IF c[1] \in 3..6 /\ c[2] \in 3..6 THEN Black
            ELSE Green])

\* a 5x5 green raster whose centre pixel is closed in by four black pixels
\* that touch one another only diagonally
DiamondLine == {<<2, 1>>, <<1, 2>>, <<3, 2>>, <<2, 3>>}

ScenarioDiamond ==
    Image(5, 5, [c \in Coords(5, 5) |-> IF c \in DiamondLine THEN Black ELSE Green])

Images == SmallImages \cup {ScenarioA, ScenarioDiamond}

(***************************************************************************)
(* Flood fill: make_transparent step 1 and flood_fill_background.          *)
(***************************************************************************)
\* the border coordinates in the order the two seeding loops visit them
BorderSeq(wd, ht) ==
    [i \in 1..(2 * wd + 2 * ht) |->
        IF i <= 2 * wd
        THEN <<(i - 1) \div 2, IF i % 2 = 1 THEN 0 ELSE ht - 1>>
        ELSE <<IF (i - 2 * wd) % 2 = 1 THEN 0 ELSE wd - 1, (i - 2 * wd - 1) \div 2>>]

\* does the popped pixel pass the loop's colour tests
Accepts(p, pixel, bg) ==
    IF p = "smart"
    THEN ~is_dark(pixel) /\ is_bg(pixel, bg)
    ELSE is_target_color(pixel, bg)

SeedsOf(p, wd, ht, px, bg) ==
    IF p = "smart"
    THEN BorderSeq(wd, ht)
    ELSE SelectSeq(BorderSeq(wd, ht), LAMBDA c : is_target_color(px[c], bg))

Seed ==
    /\ pc = "seed"
    /\ queue' = SeedsOf(prog, w, h, pixels, bg_color)
    /\ visited' = {}
    /\ to_remove' = {}
    /\ pc' = "flood"
    /\ UNCHANGED <<prog, sampleVars, swapVars, passVars, imageVars, bg_color, bg_pixels, pass_num, fringe, run,
                   first_removed, clusterVars, batchVars>>

\* the set the loop body marks: nothing on a continue, the coordinate otherwise
MarkedBy(c, vis, px, p, bg) ==
    IF c \in vis THEN {}
    ELSE IF ~InBounds(c) THEN {}
    ELSE IF ~Accepts(p, px[c], bg) THEN {}
    ELSE {c}

\* a loop that would leave a skipped coordinate at the head, for comparison
QueueKeepingSkipped(q, m) ==
    IF m = {} THEN q ELSE Tail(q) \o Neighbours4(Head(q))

\* the queue after one iteration: popleft(), and the four neighbours appended
\* when the coordinate was marked
QueueAfter(q, m) ==
    IF m = {} THEN Tail(q) ELSE Tail(q) \o Neighbours4(Head(q))

Pop ==
    /\ pc = "flood"
    /\ queue # <<>>
    /\ LET c == Head(queue)
           m == MarkedBy(c, visited, pixels, prog, bg_color)
       IN  /\ visited' = visited \cup m
           /\ to_remove' = to_remove \cup m
           /\ queue' = QueueAfter(queue, m)
    /\ UNCHANGED <<prog, sampleVars, swapVars, passVars, imageVars, bg_color, pc, bg_pixels, pass_num, fringe, run,
                   first_removed, clusterVars, batchVars>>

FloodDone ==
    /\ pc = "flood"
    /\ queue = <<>>
    /\ bg_pixels' = to_remove
    /\ pass_num' = 0
    /\ fringe' = {}
    /\ pc' = "fringe"
    /\ UNCHANGED <<prog, sampleVars, swapVars, passVars, imageVars, bg_color, queue, visited, to_remove, run,
                   first_removed, clusterVars, batchVars>>

(***************************************************************************)
(* Fringe resolution: make_transparent step 2 and remove_fringe.           *)
(***************************************************************************)
Offsets(p) ==
    IF p = "smart"
    THEN {<<-1, 0>>, <<1, 0>>, <<0, -1>>, <<0, 1>>}
    ELSE {<<-1, 0>>, <<1, 0>>, <<0, -1>>, <<0, 1>>,
          <<-1, -1>>, <<-1, 1>>, <<1, -1>>, <<1, 1>>}

IsFringe(p, pixel, bg) ==
    IF p = "smart" THEN is_fringe(pixel, bg)
    ELSE is_fringe_pixel(pixel, bg, rgb_to_hue(bg))

\* one pass of the loop over the RemovalSet: the set `fringe` it collects
FringeSet(p, px, rem, bg) ==
    {n \in {<<c[1] + d[1], c[2] + d[2]>> : c \in rem, d \in Offsets(p)} :
        /\ InBounds(n)
        /\ n \notin rem
        /\ IsFringe(p, px[n], bg)}

Passes(p) == IF p = "smart" THEN SMART_PASSES ELSE REPLACE_PASSES

\* an assignment in place of the update, for comparison
UpdateReplacing(rem, f) == f

\* to_remove.update(fringe) / removed.update(fringe)
Update(rem, f) == rem \cup f

\* a loop without the early exit, for comparison
BreaksNever(f) == FALSE

\* `if not fringe: break`
Breaks(f) == f = {}

FringePass ==
    /\ pc = "fringe"
    /\ pass_num < Passes(prog)
    /\ LET f == FringeSet(prog, pixels, to_remove, bg_color)
       IN  /\ fringe' = f
           /\ pass_num' = pass_num + 1
           /\ IF Breaks(f)
              THEN /\ to_remove' = to_remove
                   /\ pc' = "apply"
              ELSE /\ to_remove' = Update(to_remove, f)
                   /\ pc' = IF pass_num + 1 < Passes(prog) THEN "fringe" ELSE "apply"
    /\ UNCHANGED <<prog, sampleVars, swapVars, passVars, imageVars, bg_color, queue, visited, bg_pixels, run,
                   first_removed, clusterVars, batchVars>>

\* pixels[x, y] = (0, 0, 0, 0) for every coordinate of the RemovalSet
Apply ==
    /\ pc = "apply"
    /\ pixels' = [c \in DOMAIN pixels |-> IF c \in to_remove THEN Transparent ELSE pixels[c]]
    /\ pc' = "done"
    /\ UNCHANGED <<prog, sampleVars, swapVars, passVars, w, h, pixels0, bg_color, queue, visited, to_remove, bg_pixels,
                   pass_num, fringe, run, first_removed, clusterVars, batchVars>>

\* flood fill + fringe resolution run again, same background colour, on the
\* raster the first run left
Rerun ==
    /\ pc = "done"
    /\ prog \in {"smart", "replace"}
    /\ run = 1
    /\ run' = 2
    /\ first_removed' = to_remove
    /\ to_remove' = {}
    /\ bg_pixels' = {}
    /\ fringe' = {}
    /\ pass_num' = 0
    /\ queue' = <<>>
    /\ visited' = {}
    /\ pc' = "seed"
    /\ UNCHANGED <<prog, sampleVars, swapVars, passVars, imageVars, bg_color, clusterVars, batchVars>>

(***************************************************************************)
(* replace_background up to the flood fill: the transparency check and the *)
(* background colour estimate.                                             *)
(***************************************************************************)
NoColor == <<>>

\* the pixels the two border loops read, in the order they read them
BorderPixels(wd, ht, px) == [i \in 1..(2 * wd + 2 * ht) |-> px[BorderSeq(wd, ht)[i]]]

has_transparent_background(wd, ht, px) ==
    LET transparent_count ==
            Cardinality({i \in 1..(2 * wd + 2 * ht) : BorderPixels(wd, ht, px)[i][4] = 0})
        total_edge == 2 * wd + 2 * ht
    IN  2 * transparent_count > total_edge

\* Counter(seq).most_common(1)[0][0]: the most frequent element, the one
\* inserted first among equally frequent ones
Count(seq, e) == Cardinality({i \in 1..Len(seq) : seq[i] = e})

FirstIndex(seq, e) == CHOOSE i \in 1..Len(seq) : seq[i] = e /\ \A j \in 1..(i - 1) : seq[j] # e

MostCommon(seq) ==
    LET top == {e \in Range(seq) : \A f \in Range(seq) : Count(seq, f) <= Count(seq, e)}
    IN  CHOOSE e \in top : \A f \in top : FirstIndex(seq, e) <= FirstIndex(seq, f)

\* a sampling that reads the top row only, for comparison
EdgeColorsTopRow(wd, ht, px) ==
    LET opaque == SelectSeq([i \in 1..wd |-> <<i - 1, 0>>], LAMBDA c : px[c][4] > 0)
    IN  [i \in 1..Len(opaque) |-> RGB(px[opaque[i]])]

\* edge_colors: the RGB of the border pixels with alpha > 0, in reading order
EdgeColors(wd, ht, px) ==
    LET opaque == SelectSeq(BorderSeq(wd, ht), LAMBDA c : px[c][4] > 0)
    IN  [i \in 1..Len(opaque) |-> RGB(px[opaque[i]])]

detect_background_color(wd, ht, px) ==
    IF Len(EdgeColors(wd, ht, px)) = 0 THEN NoColor
    ELSE MostCommon(EdgeColors(wd, ht, px))

\* replace_background, `if has_transparent_background(img)`
CheckTransparent ==
    /\ pc = "check"
    /\ pc' = IF has_transparent_background(w, h, pixels)
             THEN "composited_transparent"
             ELSE "detect"
    /\ UNCHANGED <<prog, sampleVars, swapVars, passVars, imageVars, fillVars, queue, visited, clusterVars, batchVars>>

\* replace_background, `bg_color = detect_background_color(img)` and its None test
Detect ==
    /\ pc = "detect"
    /\ bg_color' = detect_background_color(w, h, pixels)
    /\ pc' = IF detect_background_color(w, h, pixels) = NoColor
             THEN "composited_nobg"
             ELSE "seed"
    /\ UNCHANGED <<prog, sampleVars, swapVars, passVars, imageVars, queue, visited, to_remove, bg_pixels, pass_num,
                   fringe, run, first_removed, clusterVars, batchVars>>

(***************************************************************************)
(* Spec: replace_background from the loaded image on, and make_transparent *)
(* from its flood fill on (lines 71-124), given the raster and the         *)
(* background colour detect_bg_color handed it.                            *)
(***************************************************************************)
Init ==
    \E img \in Images, p \in {"smart", "replace"} :
    \E bg \in IF p = "smart" THEN BgColors ELSE {NoColor} :
        /\ prog = p
        /\ w = img.w
        /\ h = img.h
        /\ pixels = img.px
        /\ pixels0 = img.px
        /\ bg_color = bg
        /\ pc = IF p = "smart" THEN "seed" ELSE "check"
        /\ queue = <<>>
        /\ visited = {}
        /\ to_remove = {}
        /\ bg_pixels = {}
        /\ pass_num = 0
        /\ fringe = {}
        /\ run = 1
        /\ first_removed = {}
        /\ scan = 0
        /\ cluster = {}
        /\ clusters = <<>>
        /\ next_cluster = 1
        /\ max_cluster_size = 0
        /\ removed = 0
        /\ files = <<>>
        /\ idx = 1
        /\ processed = 0
        /\ attempted = {}
        /\ corner_colors = <<>>
        /\ sx = 0
        /\ sy = 0
        /\ new_bg = <<>>
        /\ replaced = 0
        /\ pending = {}
        /\ pass_start = {}

Next ==
    \/ CheckTransparent
    \/ Detect
    \/ Seed
    \/ Pop
    \/ FloodDone
    \/ FringePass
    \/ Apply
    \/ Rerun

Spec == Init /\ [][Next]_vars

\* the interpreter keeps running the flood-fill loop: an iteration, or the
\* loop's exit, that stays possible is taken
FairSpec == Spec /\ WF_vars(Pop \/ FloodDone)

(***************************************************************************)
(* EdgeSpec: the front end of replace_background (has_transparent_background *)
(* and detect_background_color) and detect_background_color called on its  *)
(* own, on every raster of a small shape whose border pixels are drawn     *)
(* from two opaque colours and the transparent one.                        *)
(***************************************************************************)
EdgeColours == {Green, Red, Transparent}

EdgeShapes == {<<1, 1>>, <<3, 1>>, <<2, 2>>, <<3, 3>>}

EdgeRasters ==
    UNION {
        {Image(sh[1], sh[2],
               [c \in Coords(sh[1], sh[2]) |->
                    IF c[1] \in {0, sh[1] - 1} \/ c[2] \in {0, sh[2] - 1}
                    THEN border[c] ELSE Green]) :
            border \in [{c \in Coords(sh[1], sh[2]) :
                            c[1] \in {0, sh[1] - 1} \/ c[2] \in {0, sh[2] - 1}}
                        -> EdgeColours]}
        : sh \in EdgeShapes}

\* a direct call detect_background_color(img)
DetectCall ==
    /\ pc = "call"
    /\ bg_color' = detect_background_color(w, h, pixels)
    /\ pc' = "returned"
    /\ UNCHANGED <<prog, sampleVars, swapVars, passVars, imageVars, queue, visited, to_remove, bg_pixels, pass_num,
                   fringe, run, first_removed, clusterVars, batchVars>>

EdgeInit ==
    \E img \in EdgeRasters, p \in {"replace", "detect"} :
        /\ prog = p
        /\ w = img.w
        /\ h = img.h
        /\ pixels = img.px
        /\ pixels0 = img.px
        /\ bg_color = NoColor
        /\ pc = IF p = "replace" THEN "check" ELSE "call"
        /\ queue = <<>>
        /\ visited = {}
        /\ to_remove = {}
        /\ bg_pixels = {}
        /\ pass_num = 0
        /\ fringe = {}
        /\ run = 1
        /\ first_removed = {}
        /\ scan = 0
        /\ cluster = {}
        /\ clusters = <<>>
        /\ next_cluster = 1
        /\ max_cluster_size = 0
        /\ removed = 0
        /\ files = <<>>
        /\ idx = 1
        /\ processed = 0
        /\ attempted = {}
        /\ corner_colors = <<>>
        /\ sx = 0
        /\ sy = 0
        /\ new_bg = <<>>
        /\ replaced = 0
        /\ pending = {}
        /\ pass_start = {}

EdgeNext ==
    \/ CheckTransparent
    \/ Detect
    \/ DetectCall

EdgeSpec == EdgeInit /\ [][EdgeNext]_vars

(***************************************************************************)
(* CornerSpec: the two corner-sampling estimators, detect_bg_color of      *)
(* smart_transparent.py ("smart_detect", one loop iteration per step) and  *)
(* detect_background_color of background_swap.py ("swap_detect", one numpy *)
(* expression), on rasters below, at and above the sample size.            *)
(***************************************************************************)
SAMPLE_SIZE == 20

CornerSizes ==
    {<<1, 1>>, <<5, 5>>, <<10, 10>>, <<19, 20>>, <<20, 19>>, <<20, 20>>, <<22, 21>>}

\* green, green with a red first column, red with a green last column
CornerPatterns == {"green", "stripe", "red"}

CornerRasters ==
    {Image(sz[1], sz[2],
           [c \in Coords(sz[1], sz[2]) |->
                IF pat = "green" THEN Green
                ELSE IF pat = "stripe" THEN (IF c[1] = 0 THEN Red ELSE Green)
                ELSE (IF c[1] = sz[1] - 1 THEN Green ELSE Red)]) :
        sz \in CornerSizes, pat \in CornerPatterns}

\* the four pixels one iteration of detect_bg_color reads, in reading order
CornerReads(x, y) ==
    <<<<x, y>>, <<w - 1 - x, y>>, <<x, h - 1 - y>>, <<w - 1 - x, h - 1 - y>>>>

\* one iteration of `for x in range(sample_size): for y in range(sample_size)`;
\* pixels[x, y] is read first and raises IndexError outside the image, and
\* when it is inside so are the other three
SampleStep ==
    /\ pc = "sample"
    /\ sx < SAMPLE_SIZE
    /\ IF ~InBounds(CornerReads(sx, sy)[1])
       THEN /\ pc' = "IndexError"
            /\ UNCHANGED sampleVars
       ELSE /\ corner_colors' =
                  corner_colors \o [i \in 1..4 |-> RGB(pixels[CornerReads(sx, sy)[i]])]
            /\ sx' = IF sy + 1 = SAMPLE_SIZE THEN sx + 1 ELSE sx
            /\ sy' = IF sy + 1 = SAMPLE_SIZE THEN 0 ELSE sy + 1
            /\ UNCHANGED pc
    /\ UNCHANGED <<prog, imageVars, fillVars, queue, visited, clusterVars, batchVars,
                   swapVars, passVars>>

\* `return Counter(corner_colors).most_common(1)[0][0]`
SampleDone ==
    /\ pc = "sample"
    /\ sx = SAMPLE_SIZE
    /\ bg_color' = MostCommon(corner_colors)
    /\ pc' = "detected"
    /\ UNCHANGED <<prog, imageVars, to_remove, bg_pixels, pass_num, fringe, run,
                   first_removed, queue, visited, clusterVars, batchVars, sampleVars,
                   swapVars, passVars>>

\* img_arr[:S] and img_arr[-S:] along an axis of length n: slices clip
SliceLow(n) == 0..(Min2(SAMPLE_SIZE, n) - 1)

SliceHigh(n) == Max2(0, n - SAMPLE_SIZE)..(n - 1)

\* all_samples as the set of (corner, coordinate) pairs it concatenates
CornerSamples(wd, ht) ==
    {<<1, <<x, y>>>> : x \in SliceLow(wd), y \in SliceLow(ht)} \cup
    {<<2, <<x, y>>>> : x \in SliceHigh(wd), y \in SliceLow(ht)} \cup
    {<<3, <<x, y>>>> : x \in SliceLow(wd), y \in SliceHigh(ht)} \cup
    {<<4, <<x, y>>>> : x \in SliceHigh(wd), y \in SliceHigh(ht)}

\* the k-th smallest value of channel ch among the samples
KthSmallest(wd, ht, px, ch, k) ==
    LET smp == CornerSamples(wd, ht)
        vals == {px[s[2]][ch] : s \in smp}
    IN  CHOOSE v \in vals :
            /\ Cardinality({s \in smp : px[s[2]][ch] < v}) < k
            /\ k <= Cardinality({s \in smp : px[s[2]][ch] <= v})

\* np.median(all_samples, axis=0).astype(int): the mean of the two middle
\* values when the count is even, truncated
Median(wd, ht, px, ch) ==
    LET n == Cardinality(CornerSamples(wd, ht))
    IN  IF n % 2 = 1 THEN KthSmallest(wd, ht, px, ch, (n + 1) \div 2)
        ELSE (KthSmallest(wd, ht, px, ch, n \div 2) +
              KthSmallest(wd, ht, px, ch, n \div 2 + 1)) \div 2

detect_background_color_median(wd, ht, px) ==
    <<Median(wd, ht, px, 1), Median(wd, ht, px, 2), Median(wd, ht, px, 3)>>

MedianDetect ==
    /\ pc = "median"
    /\ bg_color' = detect_background_color_median(w, h, pixels)
    /\ pc' = "detected"
    /\ UNCHANGED <<prog, imageVars, to_remove, bg_pixels, pass_num, fringe, run,
                   first_removed, queue, visited, clusterVars, batchVars, sampleVars,
                   swapVars, passVars>>

CornerInit ==
    \E img \in CornerRasters, p \in {"smart_detect", "swap_detect"} :
        /\ prog = p
        /\ w = img.w
        /\ h = img.h
        /\ pixels = img.px
        /\ pixels0 = img.px
        /\ bg_color = NoColor
        /\ pc = IF p = "smart_detect" THEN "sample" ELSE "median"
        /\ queue = <<>>
        /\ visited = {}
        /\ to_remove = {}
        /\ bg_pixels = {}
        /\ pass_num = 0
        /\ fringe = {}
        /\ run = 1
        /\ first_removed = {}
        /\ scan = 0
        /\ cluster = {}
        /\ clusters = <<>>
        /\ next_cluster = 1
        /\ max_cluster_size = 0
        /\ removed = 0
        /\ files = <<>>
        /\ idx = 1
        /\ processed = 0
        /\ attempted = {}
        /\ corner_colors = <<>>
        /\ sx = 0
        /\ sy = 0
        /\ new_bg = <<>>
        /\ replaced = 0
        /\ pending = {}
        /\ pass_start = {}

CornerNext ==
    \/ SampleStep
    \/ SampleDone
    \/ MedianDetect

CornerSpec == CornerInit /\ [][CornerNext]_vars

(***************************************************************************)
(* ClassifySpec: the fringe test of each script applied to one neighbour   *)
(* pixel, is_fringe(pixel) of make_transparent ("smart") and               *)
(* is_fringe_pixel(pixel, bg_color, bg_hue) of remove_fringe ("replace"),  *)
(* for pixels and background colours around every threshold of the test.   *)
(***************************************************************************)
DarkGrey == <<45, 45, 45, 255>>
Grey60 == <<60, 60, 60, 255>>
Grey80 == <<80, 80, 80, 255>>
Grey128 == <<128, 128, 128, 255>>
GreyBlue == <<128, 128, 170, 255>>
HaloClear == <<0, 255, 47, 0>>
FarHalo == <<0, 255, 60, 255>>
DarkGreen == <<0, 200, 0, 255>>

FringePixels ==
    {Green, Black, Red, Halo, Transparent, DarkGrey, Grey60, Grey80, Grey128,
     GreyBlue, HaloClear, FarHalo, DarkGreen}

\* background colours the flood fill of either script collects pixels of
FringeBgs == {RGB(Green), RGB(Grey60), RGB(Grey128)}

\* the test applied to the 1x1 raster's pixel; fringe holds the coordinate
\* when the pixel is classified as fringe
Classify ==
    /\ pc = "classify"
    /\ fringe' = {c \in Coords(w, h) : IsFringe(prog, pixels[c], bg_color)}
    /\ pc' = "classified"
    /\ UNCHANGED <<prog, sampleVars, swapVars, passVars, imageVars, bg_color, to_remove,
                   bg_pixels, pass_num, run, first_removed, queue, visited,
                   clusterVars, batchVars>>

ClassifyInit ==
    \E pixel \in FringePixels, bg \in FringeBgs, p \in {"smart", "replace"} :
        /\ prog = p
        /\ w = 1
        /\ h = 1
        /\ pixels = [c \in Coords(1, 1) |-> pixel]
        /\ pixels0 = [c \in Coords(1, 1) |-> pixel]
        /\ bg_color = bg
        /\ pc = "classify"
        /\ queue = <<>>
        /\ visited = {}
        /\ to_remove = {}
        /\ bg_pixels = {}
        /\ pass_num = 0
        /\ fringe = {}
        /\ run = 1
        /\ first_removed = {}
        /\ scan = 0
        /\ cluster = {}
        /\ clusters = <<>>
        /\ next_cluster = 1
        /\ max_cluster_size = 0
        /\ removed = 0
        /\ files = <<>>
        /\ idx = 1
        /\ processed = 0
        /\ attempted = {}
        /\ corner_colors = <<>>
        /\ sx = 0
        /\ sy = 0
        /\ new_bg = <<>>
        /\ replaced = 0
        /\ pending = {}
        /\ pass_start = {}

ClassifyNext == Classify

ClassifySpec == ClassifyInit /\ [][ClassifyNext]_vars

(***************************************************************************)
(* PassSpec: the two scripts with the fringe pass taken one coordinate of  *)
(* the RemovalSet at a time, `for (x, y) in removed`, in every order a set *)
(* iteration can produce.                                                  *)
(***************************************************************************)
PassPalette == {Green, Halo, Red}

PassShapes == {<<3, 1>>, <<3, 2>>}

PassImages ==
    UNION {{Image(sh[1], sh[2], px) : px \in [Coords(sh[1], sh[2]) -> PassPalette]}
           : sh \in PassShapes}

\* the body of the loop for one coordinate c: the neighbours it adds to fringe
VisitFringe(p, px, rem, bg, c) ==
    {n \in {<<c[1] + d[1], c[2] + d[2]>> : d \in Offsets(p)} :
        /\ InBounds(n)
        /\ n \notin rem
        /\ IsFringe(p, px[n], bg)}

\* a loop that would also come to the coordinates it has just added, for
\* comparison
PendingWithAdded(pend, c, new) == (pend \ {c}) \cup new

\* the coordinates left to examine after c: the loop runs over the RemovalSet,
\* which the pass does not change
PendingAfter(pend, c, new) == pend \ {c}

\* `for pass_num in range(...)`: `fringe = set()`
PassBegin ==
    /\ pc = "fringe"
    /\ pass_num < Passes(prog)
    /\ fringe' = {}
    /\ pending' = to_remove
    /\ pass_start' = to_remove
    /\ pc' = "pass"
    /\ UNCHANGED <<prog, sampleVars, swapVars, imageVars, bg_color, queue, visited,
                   to_remove, bg_pixels, pass_num, run, first_removed, clusterVars,
                   batchVars>>

PassVisit ==
    /\ pc = "pass"
    /\ \E c \in pending :
          LET new == VisitFringe(prog, pixels, to_remove, bg_color, c)
          IN  /\ fringe' = fringe \cup new
              /\ pending' = PendingAfter(pending, c, new)
    /\ UNCHANGED <<prog, sampleVars, swapVars, imageVars, bg_color, queue, visited,
                   to_remove, bg_pixels, pass_num, run, first_removed, pc, pass_start,
                   clusterVars, batchVars>>

\* `if not fringe: break`, else the update and the next pass
PassEnd ==
    /\ pc = "pass"
    /\ pending = {}
    /\ pass_num' = pass_num + 1
    /\ IF Breaks(fringe)
       THEN /\ to_remove' = to_remove
            /\ pc' = "apply"
       ELSE /\ to_remove' = Update(to_remove, fringe)
            /\ pc' = IF pass_num + 1 < Passes(prog) THEN "fringe" ELSE "apply"
    /\ UNCHANGED <<prog, sampleVars, swapVars, imageVars, bg_color, queue, visited,
                   bg_pixels, fringe, run, first_removed, passVars, clusterVars,
                   batchVars>>

PassInit ==
    \E img \in PassImages, p \in {"smart", "replace"} :
        /\ prog = p
        /\ w = img.w
        /\ h = img.h
        /\ pixels = img.px
        /\ pixels0 = img.px
        /\ bg_color = IF p = "smart" THEN RGB(Green) ELSE NoColor
        /\ pc = IF p = "smart" THEN "seed" ELSE "check"
        /\ queue = <<>>
        /\ visited = {}
        /\ to_remove = {}
        /\ bg_pixels = {}
        /\ pass_num = 0
        /\ fringe = {}
        /\ run = 1
        /\ first_removed = {}
        /\ scan = 0
        /\ cluster = {}
        /\ clusters = <<>>
        /\ next_cluster = 1
        /\ max_cluster_size = 0
        /\ removed = 0
        /\ files = <<>>
        /\ idx = 1
        /\ processed = 0
        /\ attempted = {}
        /\ corner_colors = <<>>
        /\ sx = 0
        /\ sy = 0
        /\ new_bg = <<>>
        /\ replaced = 0
        /\ pending = {}
        /\ pass_start = {}

PassNext ==
    \/ CheckTransparent
    \/ Detect
    \/ Seed
    \/ Pop
    \/ FloodDone
    \/ PassBegin
    \/ PassVisit
    \/ PassEnd
    \/ Apply

PassSpec == PassInit /\ [][PassNext]_vars

(***************************************************************************)
(* Small-cluster removal: cleanup_dots.py ("cleanup") and                  *)
(* remove_yellow_dots.py ("yellow").                                       *)
(***************************************************************************)
Yellow == <<252, 225, 132, 255>>
Cream == <<255, 249, 225, 255>>
DotsBlue == <<62, 130, 255, 255>>
Teal == <<21, 241, 179, 255>>
Blue == <<0, 0, 255, 255>>

\* the target colours of COLORS_TO_REMOVE
COLORS_TO_REMOVE == {RGB(Yellow), RGB(Cream), RGB(DotsBlue), RGB(Teal)}

YELLOW_TARGET == RGB(Yellow)

matches_any_target(pixel) ==
    IF Len(pixel) = 4 /\ pixel[4] = 0 THEN FALSE
    ELSE \E target \in COLORS_TO_REMOVE : DistBelow(pixel, target, DOTS_TOLERANCE)

is_yellow(pixel) ==
    IF Len(pixel) = 4 /\ pixel[4] = 0 THEN FALSE
    ELSE DistBelow(pixel, YELLOW_TARGET, YELLOW_TOLERANCE)

Matches(p, pixel) ==
    IF p = "cleanup" THEN matches_any_target(pixel) ELSE is_yellow(pixel)

ClusterPalette == {Yellow, DotsBlue, Blue, Transparent}

ClusterCanvases == {Yellow, Blue}

ClusterShapes == {<<2, 2>>, <<3, 3>>}

ClusterSizes == {2, 30}

SmallClusterImages ==
    UNION {
        {Image(sh[1], sh[2], Painted(sh[1], sh[2], canvas, marks)) :
            canvas \in ClusterCanvases,
            marks \in UNION {[S -> ClusterPalette] :
                S \in {T \in SUBSET Coords(sh[1], sh[2]) : Cardinality(T) <= MaxMarks}}}
        : sh \in ClusterShapes}

\* Scenario C: 8x8, a 40-pixel yellow region (rows 0..4), a 3-pixel yellow dot
\* in row 6, blue everywhere else
ScenarioCDot == {<<2, 6>>, <<3, 6>>, <<4, 6>>}

ScenarioC ==
    Image(8, 8,
        [c \in Coords(8, 8) |->
            IF c[2] <= 4 THEN Yellow
            ELSE IF c \in ScenarioCDot THEN Yellow
            ELSE Blue])

ClusterImages == SmallClusterImages \cup {ScenarioC}

\* the coordinate the scan loops `for y ... for x ...` are at
ScanCoord == <<scan % w, scan \div w>>

\* find_*_clusters, one iteration of the inner `for x` loop up to the BFS
ScanStep ==
    /\ pc = "scan"
    /\ scan < w * h
    /\ IF ScanCoord \in visited \/ ~Matches(prog, pixels[ScanCoord])
       THEN /\ scan' = scan + 1
            /\ UNCHANGED <<pc, queue, cluster>>
       ELSE /\ cluster' = {}
            /\ queue' = <<ScanCoord>>
            /\ pc' = "bfs"
            /\ UNCHANGED scan
    /\ UNCHANGED <<prog, sampleVars, swapVars, passVars, imageVars, fillVars, visited, clusters, next_cluster,
                   max_cluster_size, removed, batchVars>>

\* a search without the colour test inside the BFS, for comparison
ClusterMarkedByAnyColour(c, vis, px, p) ==
    IF c \in vis THEN {}
    ELSE IF ~InBounds(c) THEN {}
    ELSE {c}

\* the set the BFS body marks: nothing on a continue, the coordinate otherwise
ClusterMarkedBy(c, vis, px, p) ==
    IF c \in vis THEN {}
    ELSE IF ~InBounds(c) THEN {}
    ELSE IF ~Matches(p, px[c]) THEN {}
    ELSE {c}

\* one iteration of `while queue`
ClusterPop ==
    /\ pc = "bfs"
    /\ queue # <<>>
    /\ LET c == Head(queue)
           m == ClusterMarkedBy(c, visited, pixels, prog)
       IN  /\ visited' = visited \cup m
           /\ cluster' = cluster \cup m
           /\ queue' = QueueAfter(queue, m)
    /\ UNCHANGED <<prog, sampleVars, swapVars, passVars, imageVars, fillVars, pc, scan, clusters, next_cluster,
                   max_cluster_size, removed, batchVars>>

\* `if cluster: clusters.append(cluster)`, and on to the next x
ClusterEnd ==
    /\ pc = "bfs"
    /\ queue = <<>>
    /\ clusters' = IF cluster # {} THEN Append(clusters, cluster) ELSE clusters
    /\ scan' = scan + 1
    /\ pc' = "scan"
    /\ UNCHANGED <<prog, sampleVars, swapVars, passVars, imageVars, fillVars, queue, visited, cluster, next_cluster,
                   max_cluster_size, removed, batchVars>>

\* `return clusters`; `removed = 0`
ScanDone ==
    /\ pc = "scan"
    /\ scan = w * h
    /\ removed' = 0
    /\ next_cluster' = 1
    /\ pc' = "remove"
    /\ UNCHANGED <<prog, sampleVars, swapVars, passVars, imageVars, fillVars, queue, visited, scan, cluster, clusters,
                   max_cluster_size, batchVars>>

\* a strict threshold, for comparison
SmallEnoughStrict(n, max) == n < max

\* `if len(cluster) <= max_cluster_size`
SmallEnough(n, max) == n <= max

\* one iteration of `for cluster in clusters`
RemoveCluster ==
    /\ pc = "remove"
    /\ next_cluster <= Len(clusters)
    /\ LET cl == clusters[next_cluster]
       IN  IF SmallEnough(Cardinality(cl), max_cluster_size)
           THEN /\ pixels' = [c \in DOMAIN pixels |->
                                 IF c \in cl THEN Transparent ELSE pixels[c]]
                /\ removed' = removed + Cardinality(cl)
           ELSE UNCHANGED <<pixels, removed>>
    /\ next_cluster' = next_cluster + 1
    /\ UNCHANGED <<prog, sampleVars, swapVars, passVars, w, h, pixels0, fillVars, pc, queue, visited, scan, cluster,
                   clusters, max_cluster_size, batchVars>>

\* the loop is over: composite, save, `return removed`
RemoveDone ==
    /\ pc = "remove"
    /\ next_cluster > Len(clusters)
    /\ pc' = "done"
    /\ UNCHANGED <<prog, sampleVars, swapVars, passVars, imageVars, fillVars, queue, visited, clusterVars, batchVars>>

ClusterInit ==
    \E img \in ClusterImages, p \in {"cleanup", "yellow"}, size \in ClusterSizes :
        /\ prog = p
        /\ w = img.w
        /\ h = img.h
        /\ pixels = img.px
        /\ pixels0 = img.px
        /\ bg_color = NoColor
        /\ pc = "scan"
        /\ queue = <<>>
        /\ visited = {}
        /\ to_remove = {}
        /\ bg_pixels = {}
        /\ pass_num = 0
        /\ fringe = {}
        /\ run = 1
        /\ first_removed = {}
        /\ scan = 0
        /\ cluster = {}
        /\ clusters = <<>>
        /\ next_cluster = 1
        /\ max_cluster_size = size
        /\ removed = 0
        /\ files = <<>>
        /\ idx = 1
        /\ processed = 0
        /\ attempted = {}
        /\ corner_colors = <<>>
        /\ sx = 0
        /\ sy = 0
        /\ new_bg = <<>>
        /\ replaced = 0
        /\ pending = {}
        /\ pass_start = {}

ClusterNext ==
    \/ ScanStep
    \/ ClusterPop
    \/ ClusterEnd
    \/ ScanDone
    \/ RemoveCluster
    \/ RemoveDone

ClusterSpec == ClusterInit /\ [][ClusterNext]_vars

(***************************************************************************)
(* Batch drivers: batch_replace, batch_process and cleanup_dots.main.      *)
(* A file is an image that processes ("ok"), an image whose processing     *)
(* raises ("bad"), a file with another suffix ("other"), or the background *)
(* image lying in the input folder ("bg").                                 *)
(***************************************************************************)
FileKinds == {"ok", "bad", "other", "bg"}

FileLists == UNION {[1..n -> FileKinds] : n \in 1..MaxFiles}

\* does the driver hand the file to its per-image function
Handled(p, kind) ==
    IF p = "batch_replace" THEN kind \in {"ok", "bad"}
    ELSE IF p = "batch_process" THEN kind \in {"ok", "bad", "bg"}
    ELSE TRUE

\* does the per-image function raise on it (Image.open fails on a file that
\* is no image)
Raises(kind) == kind \in {"bad", "other"}

\* does the driver wrap the per-image call in try/except Exception
Catches(p) == p \in {"batch_replace", "batch_process"}

\* one iteration of the driver's `for` loop
BatchStep ==
    /\ pc = "batch"
    /\ idx <= Len(files)
    /\ IF ~Handled(prog, files[idx])
       THEN /\ idx' = idx + 1
            /\ UNCHANGED <<pc, processed, attempted>>
       ELSE /\ attempted' = attempted \cup {idx}
            /\ IF ~Raises(files[idx])
               THEN /\ processed' = IF Catches(prog) THEN processed + 1 ELSE processed
                    /\ idx' = idx + 1
                    /\ UNCHANGED pc
               ELSE IF Catches(prog)
               THEN /\ idx' = idx + 1
                    /\ UNCHANGED <<pc, processed>>
               ELSE /\ pc' = "crashed"
                    /\ UNCHANGED <<idx, processed>>
    /\ UNCHANGED <<prog, sampleVars, swapVars, passVars, imageVars, fillVars, queue, visited, clusterVars, files>>

BatchDone ==
    /\ pc = "batch"
    /\ idx > Len(files)
    /\ pc' = "done"
    /\ UNCHANGED <<prog, sampleVars, swapVars, passVars, imageVars, fillVars, queue, visited, clusterVars, batchVars>>

BatchInit ==
    \E fs \in FileLists, p \in {"batch_replace", "batch_process", "cleanup_main"} :
        /\ prog = p
        /\ w = 0
        /\ h = 0
        /\ pixels = <<>>
        /\ pixels0 = <<>>
        /\ bg_color = NoColor
        /\ pc = "batch"
        /\ queue = <<>>
        /\ visited = {}
        /\ to_remove = {}
        /\ bg_pixels = {}
        /\ pass_num = 0
        /\ fringe = {}
        /\ run = 1
        /\ first_removed = {}
        /\ scan = 0
        /\ cluster = {}
        /\ clusters = <<>>
        /\ next_cluster = 1
        /\ max_cluster_size = 0
        /\ removed = 0
        /\ files = fs
        /\ idx = 1
        /\ processed = 0
        /\ attempted = {}
        /\ corner_colors = <<>>
        /\ sx = 0
        /\ sy = 0
        /\ new_bg = <<>>
        /\ replaced = 0
        /\ pending = {}
        /\ pass_start = {}

BatchNext ==
    \/ BatchStep
    \/ BatchDone

BatchSpec == BatchInit /\ [][BatchNext]_vars

(***************************************************************************)
(* SwapSpec: swap_background_generic of background_swap.py from the loaded *)
(* arrays on.  The character image is converted to RGB, so a pixel is      *)
(* <<r, g, b>> here; new_bg is the tiled or resized replacement raster of  *)
(* the same size.  One step of the model is one iteration of the inner     *)
(* `for x` loop.                                                           *)
(***************************************************************************)
SWAP_TOLERANCE == 45
SWAP_PASSES == 3

SwapGreen == <<0, 255, 0>>
SwapNear == <<0, 255, 40>>
SwapEdge == <<0, 255, 50>>
SwapFar == <<0, 255, 70>>
SwapRed == <<255, 0, 0>>
SwapBlue == <<0, 0, 255>>

SwapPalette == {SwapGreen, SwapNear, SwapEdge, SwapFar, SwapRed}

TilePalette == {SwapNear, SwapBlue}

SwapShapes == {<<3, 1>>, <<2, 2>>}

\* a pass list whose last pass repeats the second tolerance, for comparison
PassToleranceRepeated(n) ==
    IF n = 1 THEN SWAP_TOLERANCE ELSE SWAP_TOLERANCE + 15

\* passes = [(tolerance, ..), (tolerance + 15, ..), (tolerance + 30, ..)]
PassTolerance(n) ==
    IF n = 1 THEN SWAP_TOLERANCE
    ELSE IF n = 2 THEN SWAP_TOLERANCE + 15
    ELSE SWAP_TOLERANCE + 30

\* color_distance(pixel[:3], bg_color) < tolerance; the uint8 channel minus
\* the int64 median is an int64, so nothing wraps
is_background_pixel(pixel, bg, tolerance) == DistBelow(pixel, bg, tolerance)

\* bg_color = detect_background_color(character_arr); result = copy
SwapDetect ==
    /\ pc = "load"
    /\ bg_color' = detect_background_color_median(w, h, pixels)
    /\ pass_num' = 1
    /\ scan' = 0
    /\ replaced' = 0
    /\ pc' = "swap"
    /\ UNCHANGED <<prog, imageVars, new_bg, to_remove, bg_pixels, fringe, run,
                   first_removed, queue, visited, cluster, clusters, next_cluster,
                   max_cluster_size, removed, batchVars, sampleVars, passVars>>

\* the body of the inner loop at (x, y) = ScanCoord
SwapPixel ==
    /\ pc = "swap"
    /\ scan < w * h
    /\ IF is_background_pixel(pixels[ScanCoord], bg_color, PassTolerance(pass_num))
       THEN /\ pixels' = [pixels EXCEPT ![ScanCoord] = new_bg[ScanCoord]]
            /\ replaced' = replaced + 1
       ELSE UNCHANGED <<pixels, replaced>>
    /\ scan' = scan + 1
    /\ UNCHANGED <<prog, w, h, pixels0, pc, bg_color, new_bg, pass_num, to_remove,
                   bg_pixels, fringe, run, first_removed, queue, visited, cluster,
                   clusters, next_cluster, max_cluster_size, removed, batchVars,
                   sampleVars, passVars>>

\* the end of a pass: the next pass starts with replaced = 0
SwapPassEnd ==
    /\ pc = "swap"
    /\ scan = w * h
    /\ pass_num < SWAP_PASSES
    /\ pass_num' = pass_num + 1
    /\ scan' = 0
    /\ replaced' = 0
    /\ UNCHANGED <<prog, imageVars, pc, bg_color, new_bg, to_remove, bg_pixels,
                   fringe, run, first_removed, queue, visited, cluster, clusters,
                   next_cluster, max_cluster_size, removed, batchVars, sampleVars,
                   passVars>>

\* after the last pass: result is saved and returned
SwapDone ==
    /\ pc = "swap"
    /\ scan = w * h
    /\ pass_num = SWAP_PASSES
    /\ pc' = "swapped"
    /\ UNCHANGED <<prog, imageVars, bg_color, new_bg, replaced, pass_num, scan,
                   to_remove, bg_pixels, fringe, run, first_removed, queue, visited,
                   cluster, clusters, next_cluster, max_cluster_size, removed,
                   batchVars, sampleVars, passVars>>

SwapInit ==
    \E shape \in SwapShapes :
    \E px \in [Coords(shape[1], shape[2]) -> SwapPalette],
       nb \in [Coords(shape[1], shape[2]) -> TilePalette] :
        /\ prog = "swap"
        /\ w = shape[1]
        /\ h = shape[2]
        /\ pixels = px
        /\ pixels0 = px
        /\ new_bg = nb
        /\ replaced = 0
        /\ bg_color = NoColor
        /\ pc = "load"
        /\ queue = <<>>
        /\ visited = {}
        /\ to_remove = {}
        /\ bg_pixels = {}
        /\ pass_num = 0
        /\ fringe = {}
        /\ run = 1
        /\ first_removed = {}
        /\ scan = 0
        /\ cluster = {}
        /\ clusters = <<>>
        /\ next_cluster = 1
        /\ max_cluster_size = 0
        /\ removed = 0
        /\ files = <<>>
        /\ idx = 1
        /\ processed = 0
        /\ attempted = {}
        /\ corner_colors = <<>>
        /\ sx = 0
        /\ sy = 0
        /\ pending = {}
        /\ pass_start = {}

SwapNext ==
    \/ SwapDetect
    \/ SwapPixel
    \/ SwapPassEnd
    \/ SwapDone

SwapSpec == SwapInit /\ [][SwapNext]_vars

(***************************************************************************)
(* What the claims speak of.                                               *)
(***************************************************************************)
AllCoords == Coords(w, h)

Adjacent4(a, b) == Abs(a[1] - b[1]) + Abs(a[2] - b[2]) = 1

\* the coordinates of M joined to a border coordinate of M by a 4-connected
\* path inside M
RECURSIVE Grow(_, _)
Grow(S, M) ==
    LET T == S \cup {c \in M : \E n \in S : Adjacent4(c, n)}
    IN  IF T = S THEN S ELSE Grow(T, M)

BorderComponent(M) == Grow({c \in M : IsBorder(c)}, M)

FloodTolerance == IF prog = "smart" THEN SMART_TOLERANCE ELSE TOLERANCE

\* background-matching (distance < tolerance), non-outline pixels
MatchingNonOutline ==
    {c \in AllCoords :
        DistBelow(pixels[c], bg_color, FloodTolerance) /\ ~is_dark(pixels[c])}

\* the pixels the running script's own loop test accepts
MatchingByCode == {c \in AllCoords : Accepts(prog, pixels[c], bg_color)}

InFlood == pc = "flood"
FloodEnded == pc = "fringe" /\ pass_num = 0
AfterFlood == pc \in {"fringe", "apply", "done"}

\* C1: every coordinate the flood fill has collected is in bounds and joined
\* to the border by a 4-connected path of background-matching, non-outline
\* pixels.
C1_Containment ==
    InFlood \/ FloodEnded =>
        /\ to_remove \subseteq AllCoords
        /\ to_remove \subseteq BorderComponent(MatchingNonOutline)

\* C1 for make_transparent alone, where the loop tests is_dark
C1_ContainmentSmart == prog = "smart" => C1_Containment

\* C2: when the loop ends its result is exactly the border component of the
\* background-matching, non-outline pixels.
C2_Maximality == FloodEnded => bg_pixels = BorderComponent(MatchingNonOutline)

\* C2 with "matching" read as the test each script's loop applies
C2_MaximalityByCode == FloodEnded => bg_pixels = BorderComponent(MatchingByCode)

\* C3: no pixel with R, G and B all below 50 is added by the flood fill.
C3_NoOutlineRemoved ==
    InFlood \/ FloodEnded => \A c \in to_remove : ~is_dark(pixels[c])

C3_NoOutlineRemovedSmart == prog = "smart" => C3_NoOutlineRemoved

\* C4: from the end of the flood fill on, the RemovalSet contains the flood-fill
\* output, the fringe count is not negative, and no step of fringe resolution
\* takes a coordinate out of the RemovalSet.
FringeCount == Cardinality(to_remove) - Cardinality(bg_pixels)

C4_MonotonicGrowth ==
    /\ [](AfterFlood => bg_pixels \subseteq to_remove /\ FringeCount >= 0)
    /\ [][pc = "fringe" => to_remove \subseteq to_remove']_vars

C4_Witness ==
    /\ pc = "done"
    /\ run = 1
    /\ bg_pixels # {}
    /\ FringeCount > 0

\* C5: fringe resolution runs at most 2 passes (make_transparent) or 1 pass
\* (remove_fringe); it goes on to another pass only after a pass that added a
\* pixel; and when it stops on a pass that added nothing, one more pass would
\* add nothing either.
PassLimit == IF prog = "smart" THEN 2 ELSE 1

FloodMeasure == Len(queue) + 4 * (w * h - Cardinality(visited))

C6_FloodTerminates ==
    /\ [](FloodMeasure >= 0 /\ visited \subseteq AllCoords)
    /\ [][pc = "flood" /\ pc' = "flood" => FloodMeasure' < FloodMeasure]_vars
    /\ (pc = "flood") ~> (pc = "fringe" /\ queue = <<>>)

C6_Witness ==
    /\ FloodEnded
    /\ queue = <<>>
    /\ w * h > 1
    /\ Cardinality(visited) = w * h

\* C7: the second run, on the raster the first run's RemovalSet was applied to,
\* removes nothing.
C7_Idempotent == run = 2 => to_remove = {} /\ bg_pixels = {}

C7_Witness ==
    /\ run = 2
    /\ pc = "done"
    /\ prog = "replace"
    /\ first_removed # {}
    /\ \E c \in AllCoords : pixels[c][4] # 0

\* C8: on Scenario A the RemovalSet after flood fill and fringe resolution is
\* exactly the green pixels: every green pixel, no black pixel, no red pixel.
OnScenarioA == pixels0 = ScenarioA.px /\ bg_color = RGB(Green) /\ run = 1

C8_ScenarioA ==
    OnScenarioA /\ pc \in {"apply", "done"} =>
        /\ to_remove = {c \in AllCoords : pixels0[c] = Green}
        /\ \A c \in AllCoords : pixels0[c] \in {Black, Red} => c \notin to_remove
        /\ Cardinality({c \in AllCoords : pixels0[c] = Red} \ to_remove) = 4

C8_Witness ==
    /\ OnScenarioA
    /\ pc = "done"
    /\ Cardinality(to_remove) = 84
    /\ \A c \in to_remove : pixels[c] = Transparent

\* the 4-connected group of matching pixels of the loaded raster that c is in
GroupOf(c) == Grow({c}, {d \in AllCoords : Matches(prog, pixels0[d])})

ShouldProcess == {i \in 1..Len(files) : Handled(prog, files[i])}

C10_BatchIsolation ==
    pc \in {"done", "crashed"} =>
        /\ attempted = ShouldProcess
        /\ Catches(prog) =>
              processed = Cardinality({i \in ShouldProcess : ~Raises(files[i])})

\* C10 for the two drivers that catch
C10_BatchIsolationCaught == Catches(prog) => C10_BatchIsolation

C10_WitnessCaught ==
    /\ pc = "done"
    /\ Catches(prog)
    /\ Len(files) = 3
    /\ files[1] = "bad"
    /\ 3 \in attempted
    /\ processed = 2

\* C11: detect_background_color returns None exactly when every border pixel
\* is fully transparent, and otherwise a colour no other colour beats in the
\* number of distinct non-transparent border pixels that have it.
BorderCoords == {c \in AllCoords : IsBorder(c)}

OpaqueBorder == {c \in BorderCoords : pixels[c][4] # 0}

OnceCount(col) == Cardinality({c \in OpaqueBorder : RGB(pixels[c]) = col})

C11_DetectMode ==
    pc = "returned" =>
        /\ bg_color = NoColor <=> OpaqueBorder = {}
        /\ bg_color # NoColor =>
              /\ OnceCount(bg_color) > 0
              /\ \A c \in OpaqueBorder : OnceCount(RGB(pixels[c])) <= OnceCount(bg_color)

\* C12: the corner-sampling estimators never read outside the raster and
\* always return a colour.
C12_NoFailure ==
    /\ pc # "IndexError"
    /\ pc = "detected" => Len(bg_color) = 3

\* C12 for detect_background_color of background_swap.py alone
C12_NoFailureMedian == prog = "swap_detect" => C12_NoFailure

\* C13: a pixel is classified as fringe exactly when it is not fully
\* transparent and (a) its distance to the background colour is below 40, or
\* (b) its distance is below the fringe tolerance, it is not an outline
\* pixel, its hue is within the hue tolerance of the background hue, and its
\* saturation exceeds 0.25 and its lightness 0.2.
FringeToleranceOf(p) == IF p = "smart" THEN SMART_FRINGE_TOLERANCE ELSE FRINGE_TOLERANCE

RuleTight(pixel, bg) == DistBelow(pixel, bg, TIGHT_TOLERANCE)

RuleGated(pixel, bg, F) ==
    /\ DistBelow(pixel, bg, F)
    /\ ~is_dark(pixel)
    /\ HueClose(rgb_to_hue(pixel), rgb_to_hue(bg))
    /\ 4 * SatNum(pixel) > SatDen(pixel)
    /\ 5 * LightNum(pixel) > 510

ClaimedFringe(pixel, bg, F) ==
    pixel[4] # 0 /\ (RuleTight(pixel, bg) \/ RuleGated(pixel, bg, F))

C13_FringeRule ==
    pc = "classified" =>
        \A c \in AllCoords :
            c \in fringe <=> ClaimedFringe(pixels[c], bg_color, FringeToleranceOf(prog))

\* C13 for is_fringe_pixel of replace_background.py alone
C13_FringeRuleReplace == prog = "replace" => C13_FringeRule

\* C14: during a fringe pass every coordinate collected so far is a neighbour
\* of a coordinate that was in the RemovalSet when the pass began and is not
\* itself in that set, and when the loop has examined the whole RemovalSet,
\* in whatever order, the collected set is the one set the RemovalSet at the
\* start of the pass determines.
NeighbourOf(n, S) ==
    \E c \in S, d \in Offsets(prog) : n = <<c[1] + d[1], c[2] + d[2]>>

C14_PassSnapshot ==
    pc = "pass" =>
        /\ \A n \in fringe : n \notin pass_start /\ NeighbourOf(n, pass_start)
        /\ pending = {} => fringe = FringeSet(prog, pixels, pass_start, bg_color)

\* a pass has examined its whole RemovalSet of two or more coordinates and
\* collected a fringe pixel next to another fringe candidate
C14_Witness ==
    /\ pc = "pass"
    /\ pending = {}
    /\ Cardinality(pass_start) >= 2
    /\ fringe # {}
    /\ \E n \in AllCoords \ (pass_start \cup fringe) :
          /\ IsFringe(prog, pixels[n], bg_color)
          /\ NeighbourOf(n, fringe)

\* C15: a region of background-coloured pixels that the flood fill did not
\* reach and whose every 4-neighbour outside the region is an outline pixel
\* has no pixel in the RemovalSet after fringe resolution.
BgColoured ==
    {c \in AllCoords :
        /\ pixels0[c][4] # 0
        /\ DistBelow(pixels0[c], bg_color, FloodTolerance)
        /\ ~is_dark(pixels0[c])}

RegionOf(c) == Grow({c}, BgColoured)

ClosedInByOutline(R) ==
    /\ R \cap bg_pixels = {}
    /\ \A r \in R : \A i \in 1..4 :
          LET n == Neighbours4(r)[i]
          IN  InBounds(n) /\ n \notin R => is_dark(pixels0[n]) /\ pixels0[n][4] # 0

EnclosedInterior == {c \in BgColoured : ClosedInByOutline(RegionOf(c))}

C15_NoEatThrough ==
    pc \in {"apply", "done"} /\ run = 1 /\ Len(bg_color) = 3 =>
        EnclosedInterior \cap to_remove = {}

\* C15 for make_transparent alone, whose fringe pass looks at 4 neighbours
C15_NoEatThroughSmart == prog = "smart" => C15_NoEatThrough

\* C16: the clusters the search returns are non-empty, pairwise disjoint, hold
\* only in-bounds, non-transparent matching coordinates, are each the whole
\* 4-connected group of its pixels, and together cover every matching pixel;
\* the returned count is the number of pixels made transparent.
MatchingCoords == {c \in AllCoords : Matches(prog, pixels0[c])}

C16_ClusterPartition ==
    pc \in {"remove", "done"} =>
        /\ \A i \in 1..Len(clusters) :
              /\ clusters[i] # {}
              /\ clusters[i] \subseteq MatchingCoords
              /\ \A c \in clusters[i] : pixels0[c][4] # 0 /\ clusters[i] = GroupOf(c)
              /\ \A j \in 1..Len(clusters) : i # j => clusters[i] \cap clusters[j] = {}
        /\ \A c \in MatchingCoords : \E i \in 1..Len(clusters) : c \in clusters[i]
        /\ pc = "done" =>
              removed = Cardinality({c \in AllCoords :
                                        pixels[c] = Transparent /\ pixels0[c] # Transparent})

\* two clusters were found next to non-matching and transparent pixels, one
\* of them removed and one kept
C16_Witness ==
    /\ pc = "done"
    /\ Len(clusters) >= 2
    /\ removed > 0
    /\ \E c \in MatchingCoords : pixels[c] = pixels0[c]
    /\ \E c \in AllCoords : pixels0[c] = Transparent
    /\ \E c \in AllCoords : pixels0[c] # Transparent /\ c \notin MatchingCoords

\* C17: has_transparent_background answers True exactly when more than half
\* of the distinct border pixels have alpha 0, and replace_background then
\* removes no pixel: the raster is left as it was read.
ClearBorder == {c \in BorderCoords : pixels0[c][4] = 0}

ComposedOnly == to_remove = {} /\ pixels = pixels0

C17_TransparentCheck ==
    prog = "replace" /\ pc # "check" =>
        /\ pc = "composited_transparent" <=>
              2 * Cardinality(ClearBorder) > Cardinality(BorderCoords)
        /\ pc = "composited_transparent" => ComposedOnly

\* the part of C17 that holds: a True answer leaves every pixel in place
C17_TransparentKeepsPixels ==
    prog = "replace" /\ pc = "composited_transparent" => ComposedOnly

\* C18: once has_transparent_background has answered False,
\* detect_background_color returns a colour: replace_background never takes
\* its "no bg detected" branch.
C18_FallbackUnreachable ==
    prog = "replace" =>
        /\ pc # "composited_nobg"
        /\ pc = "seed" => Len(bg_color) = 3

\* detection ran on a raster with transparent border pixels, too few of them
\* for has_transparent_background, and returned a colour
C18_Witness ==
    /\ prog = "replace"
    /\ pc = "seed"
    /\ Len(bg_color) = 3
    /\ \E c \in BorderCoords : pixels0[c][4] = 0
    /\ ~has_transparent_background(w, h, pixels0)

\* C19: the three in-place passes of swap_background_generic end with the
\* raster one pass at tolerance T+30 over the original raster gives: a pixel
\* whose original distance to the background colour is below T+30 ends as
\* new_bg at its place, every other pixel keeps its original value.
SinglePass(px, nb, bg, tolerance) ==
    [c \in DOMAIN px |-> IF is_background_pixel(px[c], bg, tolerance)
                         THEN nb[c] ELSE px[c]]

C19_SinglePassEquivalent ==
    pc = "swapped" =>
        pixels = SinglePass(pixels0, new_bg, bg_color, SWAP_TOLERANCE + 30)

\* a pixel was first replaced by the third pass, another was replaced by the
\* first pass with a value that matches again and was counted again by the
\* last pass, and a third pixel was kept
C19_Witness ==
    /\ pc = "swapped"
    /\ \E c \in AllCoords :
          /\ ~is_background_pixel(pixels0[c], bg_color, SWAP_TOLERANCE + 15)
          /\ is_background_pixel(pixels0[c], bg_color, SWAP_TOLERANCE + 30)
          /\ pixels[c] # pixels0[c]
    /\ \E c \in AllCoords :
          /\ is_background_pixel(pixels0[c], bg_color, SWAP_TOLERANCE)
          /\ is_background_pixel(new_bg[c], bg_color, SWAP_TOLERANCE)
          /\ pixels0[c] # new_bg[c]
    /\ \E c \in AllCoords : pixels[c] = pixels0[c] /\ pixels0[c] # new_bg[c]
    /\ replaced >= 2

====
